---- MODULE Spec2Model ----
(***************************************************************************)
(* Force-of-infection engine of pyEpiabm: HouseholdInfection              *)
(* (property/household_foi.py) and PlaceInfection (property/place_foi.py). *)
(*                                                                         *)
(* Python numbers are modelled as exact rationals <<numerator,             *)
(* denominator>> in lowest terms; floating-point rounding is not modelled. *)
(* A call either returns a value or raises; an outcome is a record         *)
(* [err, val] with err = NoErr for a normal return.                        *)
(*                                                                         *)
(* The sweep list of one simulated day (tests/test_func/helper_func.py) is *)
(* built and run in the "simulation" context.                              *)
(***************************************************************************)
EXTENDS Integers, Sequences, FiniteSets, TLC

VARIABLES
    infector,   \* Person: the infector, with its microcell
    infectee,   \* Person: the infectee
    place,      \* Place argument of the PlaceInfection functions
    params,     \* Parameters.instance(): the process-wide store
    time,       \* current simulation time
    context,    \* which family of functions is exercised on these inputs
    called,     \* name of the function that has been called, or "none"
    ret,        \* outcome of that call
    sweep_list, \* the list sweep_list_initialise returned, <<>> before it
    ran         \* the sweeps run so far in the current day, in order

vars == <<infector, infectee, place, params, time, context, called, ret,
          sweep_list, ran>>

----------------------------------------------------------------------------
(* Bounds of the model *)

\* the current time ranges over 0..MaxTime; an intervention that has a start
\* time started at 0 or at MaxTime
MaxTime == 1

\* place types are the enumeration values 1..MaxPlaceType
MaxPlaceType == 6

----------------------------------------------------------------------------
(* Exact rational arithmetic *)

RECURSIVE GCD(_, _)
GCD(a, b) == IF b = 0 THEN a ELSE GCD(b, a % b)

Abs(a) == IF a < 0 THEN -a ELSE a

Rat(n, d) ==
    LET g == GCD(Abs(n), Abs(d))
        s == IF d < 0 THEN -1 ELSE 1
    IN  <<(s * n) \div g, (s * d) \div g>>

Zero == <<0, 1>>
One == <<1, 1>>

RMul(x, y) == Rat(x[1] * y[1], x[2] * y[2])
RDiv(x, y) == Rat(x[1] * y[2], x[2] * y[1])
RLe(x, y) == x[1] * y[2] <= y[1] * x[2]
\* x - y (used by the subtracting variant of household_susc)
RSub(x, y) == Rat(x[1] * y[2] - y[1] * x[2], x[2] * y[2])

----------------------------------------------------------------------------
(* Outcomes of a call: a returned value or a raised exception *)

NoErr == "none"

Ok(v) == [err |-> NoErr, val |-> v]
Raise(e) == [err |-> e, val |-> Zero]
IsOk(r) == r.err = NoErr

\* r * s for two outcomes evaluated in this order: the first exception wins
Mult(r, s) ==
    IF ~IsOk(r) THEN r
    ELSE IF ~IsOk(s) THEN s
    ELSE Ok(RMul(r.val, s.val))

\* x / y: float division raises ZeroDivisionError on a zero divisor
Divide(x, y) ==
    IF y = Zero THEN Raise("ZeroDivisionError") ELSE Ok(RDiv(x, y))

\* seq[i] on a Python list (0-based, a negative index counts from the end)
PyIndex(seq, i) ==
    IF i >= 0 /\ i < Len(seq) THEN Ok(seq[i + 1])
    ELSE IF i < 0 /\ -i <= Len(seq) THEN Ok(seq[Len(seq) + i + 1])
    ELSE Raise("IndexError")

\* d[k] on a Python dict
PyItem(d, k) == IF k \in DOMAIN d THEN Ok(d[k]) ELSE Raise("KeyError")

\* r[i] where r is the outcome of the expression that yields the list
Index(r, i) == IF IsOk(r) THEN PyIndex(r.val, i) ELSE r

\* r is evaluated before s: an exception of r is raised before s is reached
Then(r, s) == IF IsOk(r) THEN s ELSE r

----------------------------------------------------------------------------
(* Optional timestamps: attribute absent, attribute None, or a number *)

Absent == [kind |-> "absent", at |-> 0]
None == [kind |-> "None", at |-> 0]
At(n) == [kind |-> "set", at |-> n]

hasattr(ts) == ts.kind # "absent"

\* ts <= time in Python: comparing None with a number raises TypeError
LeqTime(ts, t) ==
    IF ts = None THEN Raise("TypeError")
    ELSE Ok(IF ts.at <= t THEN One ELSE Zero)

\* the gate with < in place of <=
StartedGateStrict(ts, t) ==
    /\ hasattr(ts)
    /\ ts # None
    /\ ts.at < t

\* hasattr(obj, a) and obj.a is not None and obj.a <= time
StartedGate(ts, t) ==
    /\ hasattr(ts)
    /\ ts # None
    /\ ts.at <= t

----------------------------------------------------------------------------
(* PersonalInfection, called by both classes *)

person_inf(inf, t) == inf.infectiousness

person_susc(inf, infe, t) == infe.susceptibility

----------------------------------------------------------------------------
(* HouseholdInfection *)

\* the closure condition with >= in place of <=
ClosureCondReversed(inf, t) ==
    IF ~hasattr(inf.microcell.closure_start_time) THEN Ok(Zero)
    ELSE IF ~inf.is_place_closed THEN Ok(Zero)
    ELSE IF inf.microcell.closure_start_time = None THEN Raise("TypeError")
    ELSE Ok(IF inf.microcell.closure_start_time.at >= t THEN One ELSE Zero)

\* Parameters.instance().intervention_params[intervention][key]
InterventionParam(intervention, key) ==
    LET entry == PyItem(params.intervention_params, intervention)
    IN  IF IsOk(entry) THEN PyItem(entry.val, key) ELSE entry

\* outcome of the conditional expression guarding closure_inf and place_inf:
\* hasattr(...) and infector.is_place_closed(...) and closure_start_time <= time
ClosureCond(inf, t) ==
    IF ~hasattr(inf.microcell.closure_start_time) THEN Ok(Zero)
    ELSE LET closure_place_type ==
                 InterventionParam("place_closure", "closure_place_type")
         IN  IF ~IsOk(closure_place_type) THEN closure_place_type
             ELSE IF ~inf.is_place_closed THEN Ok(Zero)
             ELSE LeqTime(inf.microcell.closure_start_time, t)

household_inf(inf, t) ==
    LET cond == ClosureCond(inf, t)
    IN  IF ~IsOk(cond) THEN cond
        ELSE LET closure_inf ==
                     IF cond.val = One
                     THEN InterventionParam("place_closure",
                              "closure_household_infectiousness")
                     ELSE Ok(One)
             IN  Then(closure_inf, Mult(Ok(person_inf(inf, t)), closure_inf))

\* household_susc dividing by the distancing factor instead of multiplying
household_susc_Divides(inf, infe, t) ==
    LET household_susceptibility == person_susc(inf, infe, t)
    IN  IF StartedGate(inf.microcell.distancing_start_time, t)
        THEN IF inf.distancing_enhanced
             THEN Divide(household_susceptibility,
                         params.intervention_params.social_distancing
                             .distancing_house_enhanced_susc)
             ELSE Divide(household_susceptibility,
                         params.intervention_params.social_distancing
                             .distancing_house_susc)
        ELSE Ok(household_susceptibility)

\* household_susc subtracting the distancing factor instead of multiplying
household_susc_Subtracts(inf, infe, t) ==
    LET household_susceptibility == person_susc(inf, infe, t)
    IN  IF StartedGate(inf.microcell.distancing_start_time, t)
        THEN IF inf.distancing_enhanced
             THEN Ok(RSub(household_susceptibility,
                          params.intervention_params.social_distancing
                              .distancing_house_enhanced_susc))
             ELSE Ok(RSub(household_susceptibility,
                          params.intervention_params.social_distancing
                              .distancing_house_susc))
        ELSE Ok(household_susceptibility)

household_susc(inf, infe, t) ==
    LET household_susceptibility == Ok(person_susc(inf, infe, t))
    IN  IF StartedGate(inf.microcell.distancing_start_time, t)
        THEN IF inf.distancing_enhanced
             THEN Mult(household_susceptibility,
                       InterventionParam("social_distancing",
                           "distancing_house_enhanced_susc"))
             ELSE Mult(household_susceptibility,
                       InterventionParam("social_distancing",
                           "distancing_house_susc"))
        ELSE household_susceptibility

household_foi(inf, infe, t) ==
    LET carehome_scale_inf ==
            IF inf.care_home_resident
            THEN params.carehome_params.carehome_resident_household_scaling
            ELSE One
        carehome_scale_susc ==
            IF infe.care_home_resident
            THEN params.carehome_params.carehome_resident_household_scaling
            ELSE One
        seasonality == One
        isolating ==
            IF StartedGate(inf.isolation_start_time, t)
            THEN InterventionParam("case_isolation",
                     "isolation_house_effectiveness")
            ELSE Ok(One)
        quarantine ==
            IF StartedGate(inf.quarantine_start_time, t)
            THEN InterventionParam("household_quarantine",
                     "quarantine_house_effectiveness")
            ELSE Ok(One)
        infectiousness ==
            Mult(Mult(Mult(Mult(Mult(household_inf(inf, t),
                Ok(seasonality)), Ok(params.household_transmission)),
                Ok(carehome_scale_inf)), isolating), quarantine)
        susceptibility ==
            Mult(household_susc(inf, infe, t), Ok(carehome_scale_susc))
    IN  Then(isolating, Then(quarantine,
            Mult(infectiousness, susceptibility)))

----------------------------------------------------------------------------
(* PlaceInfection *)

place_inf(pl, inf, t) ==
    LET transmission == params.place_params.place_transmission
        place_idx == pl.place_type - 1
        looked == PyIndex(params.place_params.mean_group_size, place_idx)
        num_groups == IF looked.err = "IndexError" THEN One ELSE looked.val
        cond == ClosureCond(inf, t)
    IN  IF ~IsOk(cond) THEN cond
        ELSE IF cond.val = One THEN Ok(Zero)
        ELSE Mult(Divide(transmission, num_groups), Ok(person_inf(inf, t)))

place_susc(pl, inf, infe, t) ==
    LET place_susc0 == Ok(One)
        place_idx == pl.place_type - 1
    IN  IF StartedGate(inf.microcell.distancing_start_time, t)
        THEN IF inf.distancing_enhanced
             THEN Mult(place_susc0,
                        Index(InterventionParam("social_distancing",
                                  "distancing_place_enhanced_susc"),
                              place_idx))
             ELSE Mult(place_susc0,
                        Index(InterventionParam("social_distancing",
                                  "distancing_place_susc"), place_idx))
        ELSE place_susc0

\* place_foi with the quarantine factor on the infectiousness side only
place_foi_QuarantineOnce(pl, inf, infe, t) ==
    LET carehome_scale_susc ==
            IF pl.place_type = 5 /\ (infe.key_worker \/ inf.key_worker)
            THEN params.carehome_params.carehome_worker_group_scaling
            ELSE One
        isolating ==
            IF StartedGate(inf.isolation_start_time, t)
            THEN InterventionParam("case_isolation",
                     "isolation_effectiveness")
            ELSE Ok(One)
        place_idx == pl.place_type - 1
        quarantine ==
            IF StartedGate(inf.quarantine_start_time, t)
            THEN Index(InterventionParam("household_quarantine",
                           "quarantine_place_effectiveness"), place_idx)
            ELSE Ok(One)
        infectiousness ==
            Mult(Mult(place_inf(pl, inf, t), isolating), quarantine)
        susceptibility ==
            Mult(place_susc(pl, inf, infe, t), Ok(carehome_scale_susc))
    IN  Then(isolating, Then(quarantine,
            Mult(infectiousness, susceptibility)))

\* place_foi scaling for a key worker in a place of any type
place_foi_AnyPlaceType(pl, inf, infe, t) ==
    LET carehome_scale_susc ==
            IF infe.key_worker \/ inf.key_worker
            THEN params.carehome_params.carehome_worker_group_scaling
            ELSE One
        isolating ==
            IF StartedGate(inf.isolation_start_time, t)
            THEN InterventionParam("case_isolation",
                     "isolation_effectiveness")
            ELSE Ok(One)
        place_idx == pl.place_type - 1
        quarantine ==
            IF StartedGate(inf.quarantine_start_time, t)
            THEN Index(InterventionParam("household_quarantine",
                           "quarantine_place_effectiveness"), place_idx)
            ELSE Ok(One)
        infectiousness ==
            Mult(Mult(place_inf(pl, inf, t), isolating), quarantine)
        susceptibility ==
            Mult(Mult(place_susc(pl, inf, infe, t),
                        Ok(carehome_scale_susc)), quarantine)
    IN  Then(isolating, Then(quarantine,
            Mult(infectiousness, susceptibility)))

place_foi(pl, inf, infe, t) ==
    LET carehome_scale_susc ==
            IF pl.place_type = 5 /\ (infe.key_worker \/ inf.key_worker)
            THEN params.carehome_params.carehome_worker_group_scaling
            ELSE One
        isolating ==
            IF StartedGate(inf.isolation_start_time, t)
            THEN InterventionParam("case_isolation",
                     "isolation_effectiveness")
            ELSE Ok(One)
        place_idx == pl.place_type - 1
        quarantine ==
            IF StartedGate(inf.quarantine_start_time, t)
            THEN Index(InterventionParam("household_quarantine",
                           "quarantine_place_effectiveness"), place_idx)
            ELSE Ok(One)
        infectiousness ==
            Mult(Mult(place_inf(pl, inf, t), isolating), quarantine)
        susceptibility ==
            Mult(Mult(place_susc(pl, inf, infe, t),
                        Ok(carehome_scale_susc)), quarantine)
    IN  Then(isolating, Then(quarantine,
            Mult(infectiousness, susceptibility)))

----------------------------------------------------------------------------
(* Inputs: parameter snapshots, persons, places *)

Frac(n, d) == Rat(n, d)

\* the first n entries of a per-place-type list (index place_type - 1)
Configured(seq, n) == SubSeq(seq, 1, n)

\* a partially configured store: every intervention factor lies strictly
\* between 0 and 1, the per-place-type lists stop before the last place types
ParamsPartial ==
    [household_transmission |-> Frac(1, 5),
     place_params |->
        [place_transmission |-> One,
         mean_group_size |-> Configured(<<Frac(2, 1), Frac(4, 1), Frac(5, 1)>>, 3)],
     carehome_params |->
        [carehome_resident_household_scaling |-> Frac(1, 2),
         carehome_worker_group_scaling |-> Frac(1, 3)],
     intervention_params |->
        [place_closure |->
            [closure_place_type |-> {1, 2, 3},
             closure_household_infectiousness |-> Frac(3, 2)],
         social_distancing |->
            [distancing_house_susc |-> Frac(3, 4),
             distancing_house_enhanced_susc |-> Frac(1, 4),
             distancing_place_susc |->
                Configured(<<Frac(1, 2), Frac(1, 3), Frac(2, 3), Frac(1, 5)>>, 4),
             distancing_place_enhanced_susc |->
                Configured(<<Frac(1, 4), Frac(1, 6), Frac(1, 3), Frac(1, 10)>>, 4)],
         case_isolation |->
            [isolation_house_effectiveness |-> Frac(2, 3),
             isolation_effectiveness |-> Frac(1, 3)],
         household_quarantine |->
            [quarantine_house_effectiveness |-> Frac(4, 5),
             quarantine_place_effectiveness |->
                Configured(<<Frac(1, 2), Frac(1, 2), Frac(3, 4), Frac(3, 4),
                             Frac(1, 4)>>, 5)]]]

\* a store configured for six place types, with the extreme factors 0 and 1
\* among the intervention effects and scalings above 1
ParamsFull ==
    [household_transmission |-> Frac(1, 10),
     place_params |->
        [place_transmission |-> Frac(1, 2),
         mean_group_size |->
            Configured(<<Frac(25, 1), Frac(25, 1), Frac(25, 1), Frac(10, 1),
                         Frac(5, 1), Frac(3, 1)>>, 6)],
     carehome_params |->
        [carehome_resident_household_scaling |-> Frac(2, 1),
         carehome_worker_group_scaling |-> Frac(3, 1)],
     intervention_params |->
        [place_closure |->
            [closure_place_type |-> {4},
             closure_household_infectiousness |-> Frac(2, 1)],
         social_distancing |->
            [distancing_house_susc |-> Frac(1, 2),
             distancing_house_enhanced_susc |-> Zero,
             distancing_place_susc |->
                Configured(<<Zero, One, Frac(1, 2), Zero, One, Frac(1, 2)>>, 6),
             distancing_place_enhanced_susc |->
                Configured(<<One, Zero, Zero, One, Frac(1, 2), Zero>>, 6)],
         case_isolation |->
            [isolation_house_effectiveness |-> One,
             isolation_effectiveness |-> Zero],
         household_quarantine |->
            [quarantine_house_effectiveness |-> Frac(1, 3),
             quarantine_place_effectiveness |->
                Configured(<<Zero, One, Frac(1, 2), One, Frac(1, 3),
                             Frac(1, 2)>>, 6)]]]

ParamSets == {ParamsPartial, ParamsFull}

Interventions ==
    {"case_isolation", "household_quarantine", "social_distancing",
     "place_closure"}

\* a store whose intervention_params has no entry for one intervention
Without(store, intervention) ==
    [store EXCEPT !.intervention_params =
        [k \in DOMAIN store.intervention_params \ {intervention} |->
            store.intervention_params[k]]]

LackingParamSets == {Without(ParamsFull, k) : k \in Interventions}

StartTimes == {0, MaxTime}

Timestamps == {Absent, None} \cup {At(n) : n \in StartTimes}

SimTimes == 0..MaxTime

\* place types 2 and 3 have an entry in every per-place-type list of both
\* stores, as type 1 has; types 4 and above are where entries start to miss
PlaceTypes == {1} \cup 4..MaxPlaceType

\* personal infectiousness and susceptibility (PersonalInfection's results)
Infectiousness == {One, Frac(2, 1)}
Susceptibility == {One, Frac(1, 2)}

Microcells ==
    [closure_start_time : Timestamps, distancing_start_time : Timestamps]

\* the household functions take no place
NoPlace == [place_type |-> 0]

----------------------------------------------------------------------------
(* The state machine: inputs are drawn, then one function is called *)

NoRet == Raise("not called")

InitPersons(residents, workers, infectiousnesses, susceptibilities) ==
    /\ infector \in
          [microcell : Microcells,
           isolation_start_time : Timestamps,
           quarantine_start_time : Timestamps,
           care_home_resident : residents,
           key_worker : workers,
           distancing_enhanced : BOOLEAN,
           is_place_closed : BOOLEAN,
           infectiousness : infectiousnesses]
    /\ infectee \in
          [care_home_resident : residents,
           key_worker : workers,
           susceptibility : susceptibilities]

\* HouseholdInfection reads no place and no key_worker flag
InitHousehold ==
    /\ context = "household"
    /\ InitPersons(BOOLEAN, {FALSE}, Infectiousness, Susceptibility)
    /\ place = NoPlace

\* PlaceInfection reads no care_home_resident flag and never calls
\* person_susc; person_inf enters place_inf as one factor
InitPlace ==
    /\ context = "place"
    /\ InitPersons({FALSE}, BOOLEAN, {Frac(2, 1)}, {One})
    /\ place \in [place_type : PlaceTypes]

\* a population on which no intervention has been set, for the sweeps
PlainInfector ==
    [microcell |-> [closure_start_time |-> Absent,
                    distancing_start_time |-> Absent],
     isolation_start_time |-> Absent,
     quarantine_start_time |-> Absent,
     care_home_resident |-> FALSE,
     key_worker |-> FALSE,
     distancing_enhanced |-> FALSE,
     is_place_closed |-> FALSE,
     infectiousness |-> One]

PlainInfectee ==
    [care_home_resident |-> FALSE, key_worker |-> FALSE,
     susceptibility |-> One]

\* the sweeps of a day are built and run on a population before the first
\* InterventionSweep has set a timestamp
InitSimulation ==
    /\ context = "simulation"
    /\ infector = PlainInfector
    /\ infectee = PlainInfectee
    /\ place = NoPlace

InitWith(stores) ==
    /\ params \in stores
    /\ time \in SimTimes
    /\ called = "none"
    /\ ret = NoRet
    /\ sweep_list = <<>>
    /\ ran = <<>>
    /\ (InitHousehold \/ InitPlace \/ InitSimulation)

Init == InitWith(ParamSets)

\* the same calls with a store that is configured for three of the four
\* interventions only
InitLacking == InitWith(LackingParamSets)

\* a call that clears a None closure_start_time on the infector's microcell
CallNormalising(ctx, name, outcome) ==
    /\ context = ctx
    /\ called = "none"
    /\ called' = name
    /\ ret' = outcome
    /\ infector' =
          IF infector.microcell.closure_start_time = None
          THEN [infector EXCEPT !.microcell.closure_start_time = Absent]
          ELSE infector
    /\ UNCHANGED <<infectee, place, params, time, context, sweep_list, ran>>

Call(ctx, name, outcome) ==
    /\ context = ctx
    /\ called = "none"
    /\ called' = name
    /\ ret' = outcome
    /\ UNCHANGED <<infector, infectee, place, params, time, context,
                   sweep_list, ran>>

CallHouseholdInf ==
    Call("household", "household_inf", household_inf(infector, time))

CallHouseholdSusc ==
    Call("household", "household_susc",
         household_susc(infector, infectee, time))

CallHouseholdFoi ==
    Call("household", "household_foi",
         household_foi(infector, infectee, time))

CallPlaceInf ==
    Call("place", "place_inf", place_inf(place, infector, time))

CallPlaceSusc ==
    Call("place", "place_susc", place_susc(place, infector, infectee, time))

CallPlaceFoi ==
    Call("place", "place_foi", place_foi(place, infector, infectee, time))

\* the caller takes the result; the same inputs can be used again
Return ==
    /\ called # "none"
    /\ called' = "none"
    /\ ret' = NoRet
    /\ UNCHANGED <<infector, infectee, place, params, time, context,
                   sweep_list, ran>>

\* HelperFunc.sweep_list_initialise with QueueSweep before SpatialSweep
sweep_list_initialise_QueueEarly ==
    <<"InterventionSweep", "UpdatePlaceSweep", "HouseholdSweep",
      "PlaceSweep", "QueueSweep", "SpatialSweep", "HostProgressionSweep">>

\* HelperFunc.sweep_list_initialise: the list it returns, each sweep object
\* named by its class
sweep_list_initialise ==
    <<"InterventionSweep", "UpdatePlaceSweep", "HouseholdSweep",
      "PlaceSweep", "SpatialSweep", "QueueSweep", "HostProgressionSweep">>

SweepListInitialise ==
    /\ context = "simulation"
    /\ sweep_list = <<>>
    /\ sweep_list' = sweep_list_initialise
    /\ UNCHANGED <<infector, infectee, place, params, time, context, called,
                   ret, ran>>

\* the simulation loop runs the next sweep of the list, front to back
RunSweep ==
    /\ context = "simulation"
    /\ sweep_list # <<>>
    /\ Len(ran) < Len(sweep_list)
    /\ ran' = Append(ran, sweep_list[Len(ran) + 1])
    /\ UNCHANGED <<infector, infectee, place, params, time, context, called,
                   ret, sweep_list>>

\* after the last sweep of the list the next day starts
NextDay ==
    /\ context = "simulation"
    /\ sweep_list # <<>>
    /\ Len(ran) = Len(sweep_list)
    /\ time < MaxTime
    /\ time' = time + 1
    /\ ran' = <<>>
    /\ UNCHANGED <<infector, infectee, place, params, context, called, ret,
                   sweep_list>>

Next ==
    \/ SweepListInitialise
    \/ RunSweep
    \/ NextDay
    \/ CallHouseholdInf
    \/ CallHouseholdSusc
    \/ CallHouseholdFoi
    \/ CallPlaceInf
    \/ CallPlaceSusc
    \/ CallPlaceFoi
    \/ Return

Spec == Init /\ [][Next]_vars

SpecLacking == InitLacking /\ [][Next]_vars

----------------------------------------------------------------------------
(* Vocabulary of the properties *)

\* the contract of an intervention gate: the timestamp exists, is not None
\* and is <= time
Applies(ts, t) == ts.kind = "set" /\ ts.at <= t

\* the three inactive cases: attribute absent, None, or greater than time
Inactive(ts, t) == ts = Absent \/ ts = None \/ (ts.kind = "set" /\ ts.at > t)

NoIsolation(inf) == [inf EXCEPT !.isolation_start_time = Absent]
NoQuarantine(inf) == [inf EXCEPT !.quarantine_start_time = Absent]
NoDistancing(inf) == [inf EXCEPT !.microcell.distancing_start_time = Absent]

HouseDistancingFactor(inf) ==
    IF inf.distancing_enhanced
    THEN params.intervention_params.social_distancing
             .distancing_house_enhanced_susc
    ELSE params.intervention_params.social_distancing.distancing_house_susc

\* the entry of a per-place-type list for a place, if it has one
Entry(seq, pl) ==
    IF pl.place_type \in 1..Len(seq) THEN Ok(seq[pl.place_type])
    ELSE Raise("IndexError")

PlaceDistancingEntry(pl, inf) ==
    IF inf.distancing_enhanced
    THEN Entry(params.intervention_params.social_distancing
                   .distancing_place_enhanced_susc, pl)
    ELSE Entry(params.intervention_params.social_distancing
                   .distancing_place_susc, pl)

PlaceQuarantineEntry(pl) ==
    Entry(params.intervention_params.household_quarantine
              .quarantine_place_effectiveness, pl)

\* actual is baseline (the outcome with the timestamp absent) when the gate
\* does not apply; when it applies, actual is baseline with the factor
\* multiplied in n times, or a raise when the factor has no entry
Gated(actual, baseline, ts, factor, n) ==
    IF ~Applies(ts, time) THEN actual = baseline
    ELSE IF ~IsOk(factor) THEN ~IsOk(actual)
    ELSE IF n = 1 THEN actual = Mult(baseline, factor)
    ELSE actual = Mult(Mult(baseline, factor), factor)

ClosureActive(inf, t) ==
    Applies(inf.microcell.closure_start_time, t) /\ inf.is_place_closed

----------------------------------------------------------------------------
(* C1: the isolation, quarantine and distancing gates *)

\* C1: in household_foi, place_foi, household_susc and place_susc the
\* isolation, quarantine and social-distancing factors are each applied if
\* and only if the matching timestamp exists, is not None and is <= time; when
\* the attribute is absent, None or greater than time the outcome is the one
\* computed with that factor equal to 1 (the factor left out).
C1_GatesFollowTimestamps ==
    /\ called = "household_susc" =>
          Gated(ret, household_susc(NoDistancing(infector), infectee, time),
                infector.microcell.distancing_start_time,
                Ok(HouseDistancingFactor(infector)), 1)
    /\ called = "household_foi" =>
          /\ Gated(ret, household_foi(NoIsolation(infector), infectee, time),
                   infector.isolation_start_time,
                   Ok(params.intervention_params.case_isolation
                          .isolation_house_effectiveness), 1)
          /\ Gated(ret, household_foi(NoQuarantine(infector), infectee, time),
                   infector.quarantine_start_time,
                   Ok(params.intervention_params.household_quarantine
                          .quarantine_house_effectiveness), 1)
          /\ Gated(ret, household_foi(NoDistancing(infector), infectee, time),
                   infector.microcell.distancing_start_time,
                   Ok(HouseDistancingFactor(infector)), 1)
    /\ called = "place_susc" =>
          Gated(ret, place_susc(place, NoDistancing(infector), infectee, time),
                infector.microcell.distancing_start_time,
                PlaceDistancingEntry(place, infector), 1)
    /\ called = "place_foi" =>
          /\ Gated(ret,
                   place_foi(place, NoIsolation(infector), infectee, time),
                   infector.isolation_start_time,
                   Ok(params.intervention_params.case_isolation
                          .isolation_effectiveness), 1)
          /\ Gated(ret,
                   place_foi(place, NoQuarantine(infector), infectee, time),
                   infector.quarantine_start_time,
                   PlaceQuarantineEntry(place), 2)
          /\ Gated(ret,
                   place_foi(place, NoDistancing(infector), infectee, time),
                   infector.microcell.distancing_start_time,
                   PlaceDistancingEntry(place, infector), 1)

\* household_foi has returned with isolation started exactly at time (applied),
\* quarantine None and distancing in the future (both left out)
C1_Witness ==
    /\ called = "household_foi"
    /\ IsOk(ret)
    /\ infector.isolation_start_time = At(time)
    /\ infector.quarantine_start_time = None
    /\ infector.microcell.distancing_start_time = At(MaxTime)
    /\ time < MaxTime
    /\ ret # household_foi(NoIsolation(infector), infectee, time)
----------------------------------------------------------------------------
(* C2, C3, C4: place closure *)

\* the mean group size of the place's type, 1 for a type with no entry
GroupSize(pl) ==
    LET e == Entry(params.place_params.mean_group_size, pl)
    IN  IF IsOk(e) THEN e.val ELSE One

\* place transmission / group size x personal infectiousness
OpenPlaceInf(pl, inf, t) ==
    Mult(Divide(params.place_params.place_transmission, GroupSize(pl)),
         Ok(person_inf(inf, t)))

\* C2: when infector.microcell.closure_start_time is absent, None or greater
\* than time, household_inf returns exactly the personal infectiousness and
\* place_inf returns transmission / group size x personal infectiousness,
\* without raising, also when is_place_closed reports the place closed.
C2_ClosureGateThreeState ==
    Inactive(infector.microcell.closure_start_time, time) =>
        /\ called = "household_inf" =>
              ret = Ok(person_inf(infector, time))
        /\ called = "place_inf" =>
              ret = OpenPlaceInf(place, infector, time)

\* C3: when place closure is active (closure_start_time set and <= time and
\* the place reported closed), place_inf returns exactly 0 whatever the
\* personal infectiousness, and household_inf returns the personal
\* infectiousness times closure_household_infectiousness.
C3_ActiveClosure ==
    ClosureActive(infector, time) =>
        /\ called = "place_inf" => ret = Ok(Zero)
        /\ called = "household_inf" =>
              ret = Ok(RMul(person_inf(infector, time),
                            params.intervention_params.place_closure
                                .closure_household_infectiousness))

\* place_inf has returned 0 for an infector of infectiousness 2 under a
\* closure that started before time
C3_WitnessPlace ==
    /\ called = "place_inf"
    /\ infector.is_place_closed
    /\ infector.microcell.closure_start_time = At(0)
    /\ time > 0
    /\ infector.infectiousness = Frac(2, 1)
    /\ ret = Ok(Zero)

\* C4: with no active closure place_inf returns place_transmission divided by
\* the mean group size of the place's type (index place_type - 1) times the
\* personal infectiousness, the group size being 1 for a type with no entry,
\* and does not raise.
C4_OpenPlaceInfectiousness ==
    (called = "place_inf" /\ ~ClosureActive(infector, time)) =>
        ret = OpenPlaceInf(place, infector, time)

----------------------------------------------------------------------------
(* C5: place types without an entry in an intervention list *)

\* C5: for a place whose type has no entry in distancing_place_susc,
\* distancing_place_enhanced_susc or quarantine_place_effectiveness,
\* place_susc and place_foi with that intervention active use a factor of 1
\* for it and return a value instead of raising.
C5_MissingEntryIsFactorOne ==
    /\ ( /\ called = "place_susc"
         /\ Applies(infector.microcell.distancing_start_time, time)
         /\ ~IsOk(PlaceDistancingEntry(place, infector)) ) =>
            ret = Ok(One)
    /\ ( /\ called = "place_foi"
         /\ Applies(infector.microcell.distancing_start_time, time)
         /\ ~IsOk(PlaceDistancingEntry(place, infector)) ) =>
            ret = place_foi(place, NoDistancing(infector), infectee, time)
    /\ ( /\ called = "place_foi"
         /\ Applies(infector.quarantine_start_time, time)
         /\ ~IsOk(PlaceQuarantineEntry(place)) ) =>
            ret = place_foi(place, NoQuarantine(infector), infectee, time)
----------------------------------------------------------------------------
(* C6, C7: composition of household_foi and place_foi *)

CareHomeResidentScaling(person) ==
    IF person.care_home_resident
    THEN params.carehome_params.carehome_resident_household_scaling
    ELSE One

IsolationHouseFactor(inf, t) ==
    IF Applies(inf.isolation_start_time, t)
    THEN params.intervention_params.case_isolation
             .isolation_house_effectiveness
    ELSE One

QuarantineHouseFactor(inf, t) ==
    IF Applies(inf.quarantine_start_time, t)
    THEN params.intervention_params.household_quarantine
             .quarantine_house_effectiveness
    ELSE One

IsolationPlaceFactor(inf, t) ==
    IF Applies(inf.isolation_start_time, t)
    THEN params.intervention_params.case_isolation.isolation_effectiveness
    ELSE One

CareHomeWorkerScaling(pl, inf, infe) ==
    IF pl.place_type = 5 /\ (inf.key_worker \/ infe.key_worker)
    THEN params.carehome_params.carehome_worker_group_scaling
    ELSE One

\* household_inf x household_transmission x resident scaling of the infector
\* x isolation factor x quarantine factor x household_susc x resident
\* scaling of the infectee
HouseholdProduct(inf, infe, t) ==
    Mult(Mult(Mult(Mult(Mult(Mult(household_inf(inf, t),
        Ok(params.household_transmission)),
        Ok(CareHomeResidentScaling(inf))),
        Ok(IsolationHouseFactor(inf, t))),
        Ok(QuarantineHouseFactor(inf, t))),
        household_susc(inf, infe, t)),
        Ok(CareHomeResidentScaling(infe)))

\* household_transmission 0.2, personal infectiousness and susceptibility 1,
\* no active intervention, no care-home resident
PlainHousehold ==
    /\ params.household_transmission = Frac(1, 5)
    /\ infector.infectiousness = One
    /\ infectee.susceptibility = One
    /\ ~Applies(infector.isolation_start_time, time)
    /\ ~Applies(infector.quarantine_start_time, time)
    /\ ~Applies(infector.microcell.distancing_start_time, time)
    /\ ~ClosureActive(infector, time)
    /\ ~infector.care_home_resident
    /\ ~infectee.care_home_resident

\* C6: household_foi equals household_inf x household_transmission x
\* resident scaling (infector) x isolation factor x quarantine factor x
\* household_susc x resident scaling (infectee); with household_transmission
\* 0.2, personal infectiousness 1, personal susceptibility 1, no active
\* intervention and no care-home resident it returns exactly 0.2.
C6_HouseholdFoiProduct ==
    called = "household_foi" =>
        /\ ret = HouseholdProduct(infector, infectee, time)
        /\ PlainHousehold => ret = Ok(Frac(1, 5))

\* C7: with the infector's quarantine active, place_foi is its value without
\* quarantine times the place type's quarantine_place_effectiveness squared
\* (the factor enters the infectiousness and the susceptibility term), and
\* household_foi is its value without quarantine times
\* quarantine_house_effectiveness, once.
C7_QuarantineTwiceInPlaces ==
    Applies(infector.quarantine_start_time, time) =>
        /\ (called = "place_foi" /\ IsOk(PlaceQuarantineEntry(place))) =>
              /\ ret = Mult(Mult(place_foi(place, NoQuarantine(infector),
                                           infectee, time),
                                 PlaceQuarantineEntry(place)),
                            PlaceQuarantineEntry(place))
              /\ ret = Mult(Mult(Mult(place_inf(place, infector, time),
                                      Ok(IsolationPlaceFactor(infector, time))),
                                 PlaceQuarantineEntry(place)),
                            Mult(Mult(place_susc(place, infector, infectee,
                                                 time),
                                      Ok(CareHomeWorkerScaling(place, infector,
                                                               infectee))),
                                 PlaceQuarantineEntry(place)))
        /\ called = "household_foi" =>
              ret = Mult(household_foi(NoQuarantine(infector), infectee, time),
                         Ok(params.intervention_params.household_quarantine
                                .quarantine_house_effectiveness))
\* place_foi has returned a non-zero value under an active quarantine whose
\* factor is neither 0 nor 1, and the value is not the one a single
\* application of the factor gives
C7_Witness ==
    /\ called = "place_foi"
    /\ Applies(infector.quarantine_start_time, time)
    /\ PlaceQuarantineEntry(place) = Ok(Frac(1, 2))
    /\ IsOk(ret)
    /\ ret.val # Zero
    /\ ret # Mult(place_foi(place, NoQuarantine(infector), infectee, time),
                  PlaceQuarantineEntry(place))
----------------------------------------------------------------------------
(* C8, C9: bounds on the values *)

InUnit(x) == RLe(Zero, x) /\ RLe(x, One)

AllInUnit(seq) == \A i \in 1..Len(seq) : InUnit(seq[i])

\* every isolation, quarantine and distancing effect factor lies in [0,1]
EffectsInUnit ==
    LET ip == params.intervention_params
    IN  /\ InUnit(ip.case_isolation.isolation_house_effectiveness)
        /\ InUnit(ip.case_isolation.isolation_effectiveness)
        /\ InUnit(ip.household_quarantine.quarantine_house_effectiveness)
        /\ AllInUnit(ip.household_quarantine.quarantine_place_effectiveness)
        /\ InUnit(ip.social_distancing.distancing_house_susc)
        /\ InUnit(ip.social_distancing.distancing_house_enhanced_susc)
        /\ AllInUnit(ip.social_distancing.distancing_place_susc)
        /\ AllInUnit(ip.social_distancing.distancing_place_enhanced_susc)

\* transmission rates, scalings, the closure factor, group sizes and the
\* personal values are non-negative
NonNegativeBaseline ==
    /\ RLe(Zero, params.household_transmission)
    /\ RLe(Zero, params.place_params.place_transmission)
    /\ \A i \in 1..Len(params.place_params.mean_group_size) :
          RLe(Zero, params.place_params.mean_group_size[i])
    /\ RLe(Zero, params.carehome_params.carehome_resident_household_scaling)
    /\ RLe(Zero, params.carehome_params.carehome_worker_group_scaling)
    /\ RLe(Zero, params.intervention_params.place_closure
                     .closure_household_infectiousness)
    /\ RLe(Zero, infector.infectiousness)
    /\ RLe(Zero, infectee.susceptibility)

\* a returned value is at most the value returned without the modifier
AtMost(actual, baseline) ==
    (IsOk(actual) /\ IsOk(baseline)) => RLe(actual.val, baseline.val)

\* C8: with all intervention effect factors in [0,1] and non-negative
\* baseline values, household_foi and place_foi with an isolation,
\* quarantine or distancing modifier active are never greater than the same
\* computation with that modifier inactive and everything else unchanged.
C8_ModifiersNeverIncrease ==
    (EffectsInUnit /\ NonNegativeBaseline) =>
        /\ called = "household_foi" =>
              /\ Applies(infector.isolation_start_time, time) =>
                    AtMost(ret, household_foi(NoIsolation(infector),
                                              infectee, time))
              /\ Applies(infector.quarantine_start_time, time) =>
                    AtMost(ret, household_foi(NoQuarantine(infector),
                                              infectee, time))
              /\ Applies(infector.microcell.distancing_start_time, time) =>
                    AtMost(ret, household_foi(NoDistancing(infector),
                                              infectee, time))
        /\ called = "place_foi" =>
              /\ Applies(infector.isolation_start_time, time) =>
                    AtMost(ret, place_foi(place, NoIsolation(infector),
                                          infectee, time))
              /\ Applies(infector.quarantine_start_time, time) =>
                    AtMost(ret, place_foi(place, NoQuarantine(infector),
                                          infectee, time))
              /\ Applies(infector.microcell.distancing_start_time, time) =>
                    AtMost(ret, place_foi(place, NoDistancing(infector),
                                          infectee, time))

\* household_foi has returned, with distancing active, a value strictly
\* below the one it returns without distancing
C8_Witness ==
    /\ called = "household_foi"
    /\ EffectsInUnit
    /\ NonNegativeBaseline
    /\ Applies(infector.microcell.distancing_start_time, time)
    /\ IsOk(ret)
    /\ ret # household_foi(NoDistancing(infector), infectee, time)
    /\ RLe(ret.val,
           household_foi(NoDistancing(infector), infectee, time).val)

\* C9: for non-negative parameters and personal values, the values returned
\* by household_inf, household_susc, household_foi, place_inf, place_susc
\* and place_foi are non-negative in every combination of intervention
\* states, and place_inf is 0 for a closed place.
C9_NonNegative ==
    ( /\ NonNegativeBaseline
      /\ \A x \in {params.intervention_params.case_isolation
                       .isolation_house_effectiveness,
                   params.intervention_params.case_isolation
                       .isolation_effectiveness,
                   params.intervention_params.household_quarantine
                       .quarantine_house_effectiveness,
                   params.intervention_params.social_distancing
                       .distancing_house_susc,
                   params.intervention_params.social_distancing
                       .distancing_house_enhanced_susc} : RLe(Zero, x)
      /\ \A l \in {params.intervention_params.household_quarantine
                       .quarantine_place_effectiveness,
                   params.intervention_params.social_distancing
                       .distancing_place_susc,
                   params.intervention_params.social_distancing
                       .distancing_place_enhanced_susc} :
            \A i \in 1..Len(l) : RLe(Zero, l[i]) ) =>
        /\ (called # "none" /\ IsOk(ret)) => RLe(Zero, ret.val)
        /\ (called = "place_inf" /\ ClosureActive(infector, time)) =>
              ret = Ok(Zero)

\* household_foi has returned exactly 0 through a zero distancing factor,
\* with every other factor positive
C9_Witness ==
    /\ called = "household_foi"
    /\ ret = Ok(Zero)
    /\ Applies(infector.microcell.distancing_start_time, time)
    /\ HouseDistancingFactor(infector) = Zero
    /\ household_foi(NoDistancing(infector), infectee, time) # Ok(Zero)
    /\ IsOk(household_foi(NoDistancing(infector), infectee, time))

----------------------------------------------------------------------------
(* C10: frame *)

\* C10: a call of household_foi or place_foi, or of the _inf and _susc
\* functions they call, leaves the infector, the infectee, the place, the
\* microcell timestamps and the Parameters store unchanged.
C10_CallsChangeNothing ==
    [][(called = "none" /\ called' # "none") =>
           /\ infector' = infector
           /\ infectee' = infectee
           /\ place' = place
           /\ params' = params]_vars

\* place_foi has raised on a None closure_start_time, which is still None
C10_Witness ==
    /\ called = "place_foi"
    /\ ret = Raise("TypeError")
    /\ infector.microcell.closure_start_time = None
    /\ infector.isolation_start_time = At(0)

----------------------------------------------------------------------------
(* C11: the sweeps of one day *)

SweepOrder ==
    <<"InterventionSweep", "UpdatePlaceSweep", "HouseholdSweep",
      "PlaceSweep", "SpatialSweep", "QueueSweep", "HostProgressionSweep">>

QueuingSweeps == {"HouseholdSweep", "PlaceSweep", "SpatialSweep"}

Position(seq, x) == CHOOSE i \in 1..Len(seq) : seq[i] = x

Holds(seq, x) == \E i \in 1..Len(seq) : seq[i] = x

\* C11: the sweep list built for one simulated day is InterventionSweep,
\* UpdatePlaceSweep, HouseholdSweep, PlaceSweep, SpatialSweep, QueueSweep,
\* HostProgressionSweep, and the sweeps run in this order, each exactly
\* once: every infection-queuing sweep has run before QueueSweep runs, and
\* HostProgressionSweep runs last.
C11_SweepsInFixedOrder ==
    /\ sweep_list # <<>> => sweep_list = SweepOrder
    /\ Len(ran) <= Len(SweepOrder)
    /\ ran = SubSeq(SweepOrder, 1, Len(ran))
    /\ \A i, j \in 1..Len(ran) : ran[i] = ran[j] => i = j
    /\ Holds(ran, "QueueSweep") =>
          \A q \in QueuingSweeps :
              /\ Holds(ran, q)
              /\ Position(ran, q) < Position(ran, "QueueSweep")
    /\ Holds(ran, "HostProgressionSweep") =>
          /\ ran[Len(ran)] = "HostProgressionSweep"
          /\ \A x \in {sweep_list[i] : i \in 1..Len(sweep_list)} :
                Holds(ran, x)

\* all seven sweeps of the second day have run
C11_Witness ==
    /\ context = "simulation"
    /\ time > 0
    /\ Len(ran) = 7
    /\ ran[6] = "QueueSweep"
    /\ ran[7] = "HostProgressionSweep"

----------------------------------------------------------------------------
(* C12: a store that lacks the keys of an inactive intervention *)

\* the timestamp attribute that gates an intervention
StartTimeOf(intervention) ==
    CASE intervention = "case_isolation" -> infector.isolation_start_time
      [] intervention = "household_quarantine" ->
             infector.quarantine_start_time
      [] intervention = "social_distancing" ->
             infector.microcell.distancing_start_time
      [] intervention = "place_closure" ->
             infector.microcell.closure_start_time

Lacking == Interventions \ DOMAIN params.intervention_params

\* C12: when every intervention the Parameters store lacks is inactive for
\* the call (its timestamp attribute is absent, None or greater than time),
\* the called force-of-infection function does not read the missing entry:
\* no KeyError is raised, for place closure as for isolation, quarantine
\* and distancing.
C12_InactiveInterventionNotRead ==
    (/\ called # "none"
     /\ Lacking # {}
     /\ \A k \in Lacking : Inactive(StartTimeOf(k), time))
        => ret.err # "KeyError"

----------------------------------------------------------------------------
(* C13: the care-home worker scaling of place_foi *)

NotKeyWorker(person) == [person EXCEPT !.key_worker = FALSE]

\* the quarantine factor of place_foi for the call
QuarantinePlaceFactor(pl, inf, t) ==
    IF Applies(inf.quarantine_start_time, t)
    THEN PlaceQuarantineEntry(pl)
    ELSE Ok(One)

\* C13: place_foi is its value for the same call with neither party a key
\* worker, times carehome_worker_group_scaling when the place type value is 5
\* and the infector or the infectee is a key worker, and times 1 for every
\* other place type and for a care home without a key worker; with neither
\* party a key worker it is place_inf x isolation x quarantine x place_susc
\* x quarantine, with no care-home factor.
C13_CareHomeWorkerScaling ==
    called = "place_foi" =>
        /\ ret = Mult(place_foi(place, NotKeyWorker(infector),
                                NotKeyWorker(infectee), time),
                      Ok(IF /\ place.place_type = 5
                            /\ (infector.key_worker \/ infectee.key_worker)
                         THEN params.carehome_params
                                  .carehome_worker_group_scaling
                         ELSE One))
        /\ LET q == QuarantinePlaceFactor(place, infector, time)
           IN  place_foi(place, NotKeyWorker(infector),
                         NotKeyWorker(infectee), time)
                 = Then(q,
                        Mult(Mult(Mult(place_inf(place, infector, time),
                                       Ok(IsolationPlaceFactor(infector,
                                                               time))), q),
                             Mult(place_susc(place, infector, infectee,
                                             time), q)))

\* place_foi has returned a non-zero value for a care-home place where only
\* the infectee is a key worker, and the value differs from the one without
\* key workers
C13_Witness ==
    /\ called = "place_foi"
    /\ place.place_type = 5
    /\ infectee.key_worker
    /\ ~infector.key_worker
    /\ IsOk(ret)
    /\ ret.val # Zero
    /\ ret # place_foi(place, infector, NotKeyWorker(infectee), time)

====
